---- MODULE Spec2Model ----
(***************************************************************************)
(* UrbanWheels dashboard: the filter-and-aggregate script that each of the *)
(* four Streamlit pages re-executes from the top on every interaction.     *)
(*                                                                         *)
(* A run of a page is one atomic step (the script is single-threaded and   *)
(* runs to its end, to st.stop() or to an uncaught exception).  The state  *)
(* after a run holds the widget values the run read, the script's          *)
(* variables and what it displayed.                                        *)
(***************************************************************************)
EXTENDS Integers, Sequences, FiniteSets, TLC

(***************************************************************************)
(* Python values of the coded columns and of the selections.  A cell is an *)
(* int (a code) or a str (a display label); == and `in` compare values of  *)
(* different types unequal.                                                *)
(***************************************************************************)
PyInt(n) == [t |-> "int", i |-> n, s |-> ""]
PyStr(x) == [t |-> "str", i |-> 0, s |-> x]
Kinds(vals) == {v.t : v \in vals}

(***************************************************************************)
(* Floats shown by st.metric.  A quotient of two numpy integers is a       *)
(* finite n/d, inf (n/0, n > 0) or nan (0/0); numpy does not raise.        *)
(* "na" marks a metric the run did not compute.                            *)
(***************************************************************************)
NA == [k |-> "na", n |-> 0, d |-> 1]
Fin(n) == [k |-> "fin", n |-> n, d |-> 1]
TrueDivide(n, d) ==
    IF d # 0 THEN [k |-> "fin", n |-> n, d |-> d]
    ELSE IF n = 0 THEN [k |-> "nan", n |-> 0, d |-> 0]
    ELSE [k |-> "inf", n |-> n, d |-> 0]

(***************************************************************************)
(* The sidebar's code -> label dictionaries and the relabelling ones.      *)
(***************************************************************************)
year_map == (0 :> 2011) @@ (1 :> 2012)
season_map == (1 :> "Spring") @@ (2 :> "Summer") @@ (3 :> "Fall") @@ (4 :> "Winter")
weather_map ==
    (1 :> "Clear") @@ (2 :> "Mist + Cloudy") @@ (3 :> "Light Snow/Rain")
        @@ (4 :> "Heavy Rain/Snow")
weekday_map ==
    (0 :> "Sunday") @@ (1 :> "Monday") @@ (2 :> "Tuesday") @@ (3 :> "Wednesday")
        @@ (4 :> "Thursday") @@ (5 :> "Friday") @@ (6 :> "Saturday")
season_labels == season_map
weather_labels ==
    (1 :> "Clear") @@ (2 :> "Mist/Cloudy") @@ (3 :> "Light Rain/Snow")
        @@ (4 :> "Heavy Rain/Snow")
weekday_labels == weekday_map

Range(f) == {f[k] : k \in DOMAIN f}

\* selected = [k for k, v in m.items() if v in raw]
SelectedCodes(m, raw) == {PyInt(k) : k \in {c \in DOMAIN m : m[c] \in raw}}

(***************************************************************************)
(* hour_cleaned.csv.  Two calendar days fix the date-derived columns; the  *)
(* file is a non-empty selection of at most MaxRows of the rows below,     *)
(* indexed 0.. by read_csv.  Every row has cnt = casual + registered.      *)
(***************************************************************************)
MaxRows == 3
MaxDate == 2

Day(d) ==
    IF d = 1
    THEN [dteday |-> 1, yr |-> PyInt(0), season |-> PyInt(2), weekday |-> PyInt(0),
          workingday |-> PyInt(0)]
    ELSE [dteday |-> 2, yr |-> PyInt(1), season |-> PyInt(4), weekday |-> PyInt(1),
          workingday |-> PyInt(1)]

Hourly(d, hr, weathersit, casual, registered) ==
    [dteday |-> Day(d).dteday, yr |-> Day(d).yr, season |-> Day(d).season,
     weekday |-> Day(d).weekday, workingday |-> Day(d).workingday,
     hr |-> hr, weathersit |-> PyInt(weathersit),
     casual |-> casual, registered |-> registered, cnt |-> casual + registered]

RowPool ==
    << Hourly(1, 8, 1, 0, 2),
       Hourly(2, 17, 4, 1, 1),
       Hourly(2, 5, 2, 0, 0),
       Hourly(1, 17, 1, 2, 0),
       Hourly(2, 8, 3, 1, 3) >>

RECURSIVE SortedSeq(_)
SortedSeq(S) ==
    IF S = {} THEN << >>
    ELSE LET m == CHOOSE x \in S : \A y \in S : x <= y
         IN << m >> \o SortedSeq(S \ {m})

\* read_csv: the rows in file order under a RangeIndex
ReadCsv(picks) ==
    LET order == SortedSeq(picks)
    IN [p \in 1..Len(order) |->
            [idx |-> p - 1] @@ RowPool[order[p]]]

CsvFiles ==
    {ReadCsv(S) : S \in {T \in SUBSET (1..Len(RowPool)) :
                            Cardinality(T) >= 1 /\ Cardinality(T) <= MaxRows}}


(***************************************************************************)
(* pandas on a table: a sequence of rows, each carrying its index label.   *)
(***************************************************************************)
RowsOf(rows) == {rows[p] : p \in DOMAIN rows}

\* Series.unique(): the distinct values of a column
Unique(rows, col) == {r[col] : r \in RowsOf(rows)}

\* df[mask]: boolean indexing builds a new table (a copy, never a view) of
\* the rows whose index label the mask holds True for
BoolIndexView(rows, keep) ==
    LET Test(r) == r.idx \in keep
    IN [view |-> TRUE, rows |-> SelectSeq(rows, Test)]

BoolIndex(rows, keep) ==
    LET Test(r) == r.idx \in keep
    IN [view |-> FALSE, rows |-> SelectSeq(rows, Test)]

\* Series.replace(m): a value that is a key of m becomes m's label
Replace(v, m) == IF v.t = "int" /\ v.i \in DOMAIN m THEN PyStr(m[v.i]) ELSE v

\* frame[col] = frame[col].replace(m)
SetColumn(rows, col, m) ==
    [p \in DOMAIN rows |-> [rows[p] EXCEPT ![col] = Replace(@, m)]]

\* the three "Add readable labels" assignments on filtered_df
Relabel(frame) ==
    [frame EXCEPT !.rows =
        SetColumn(SetColumn(SetColumn(@, "season", season_labels),
                            "weathersit", weather_labels),
                  "weekday", weekday_labels)]

\* what the assignments leave in the table filtered_df was taken from: a
\* copy shares nothing with it, a view would write its rows through
SourceAfter(src, frame) ==
    IF frame.view
    THEN [p \in DOMAIN src |->
            IF \E q \in DOMAIN frame.rows : frame.rows[q].idx = src[p].idx
            THEN LET q == CHOOSE q \in DOMAIN frame.rows :
                                frame.rows[q].idx = src[p].idx
                 IN frame.rows[q]
            ELSE src[p]]
    ELSE src

RECURSIVE Sum(_, _)
Sum(rows, col) ==
    IF Len(rows) = 0 THEN 0 ELSE rows[1][col] + Sum(Tail(rows), col)

\* groupby('hr')['cnt'].mean(): one entry per hour present, hours ascending,
\* the mean kept as the exact quotient total / count
GroupMeanByHour(rows) ==
    LET hours == SortedSeq(Unique(rows, "hr"))
        Of(h) == LET Test(r) == r.hr = h IN SelectSeq(rows, Test)
    IN [p \in 1..Len(hours) |->
            [hr |-> hours[p], total |-> Sum(Of(hours[p]), "cnt"),
             count |-> Len(Of(hours[p]))]]

MeanGreater(a, b) == a.total * b.count > b.total * a.count

\* Series.idxmax(): the label of the first occurrence of the maximum
idxmaxLast(series) ==
    LET best[p \in 1..Len(series)] ==
            IF p = 1 THEN 1
            ELSE IF ~MeanGreater(series[best[p - 1]], series[p]) THEN p
            ELSE best[p - 1]
    IN series[best[Len(series)]].hr

idxmax(series) ==
    LET best[p \in 1..Len(series)] ==
            IF p = 1 THEN 1
            ELSE IF MeanGreater(series[p], series[best[p - 1]]) THEN p
            ELSE best[p - 1]
    IN series[best[Len(series)]].hr

\* Series.idxmin(): the label of the first occurrence of the minimum
idxmin(series) ==
    LET best[p \in 1..Len(series)] ==
            IF p = 1 THEN 1
            ELSE IF MeanGreater(series[best[p - 1]], series[p]) THEN p
            ELSE best[p - 1]
    IN series[best[Len(series)]].hr

RECURSIVE CountProduct(_)
CountProduct(series) ==
    IF Len(series) = 0 THEN 1 ELSE series[1].count * CountProduct(Tail(series))

RECURSIVE SumOver(_, _)
SumOver(f, n) == IF n = 0 THEN 0 ELSE f[n] + SumOver(f, n - 1)

\* Series.std() with ddof = 1, recorded by its square: with n means m_h and
\* P the product of the group sizes, the sample variance is
\* sum((n*P*m_h - sum(P*m))^2) / (P^2 * n^2 * (n - 1)), and 0/0 for n = 1
SampleVariance(series) ==
    LET n == Len(series)
        P == CountProduct(series)
        scaled == [p \in 1..n |-> series[p].total * (P \div series[p].count)]
        all == SumOver(scaled, n)
        sq == [p \in 1..n |-> (n * scaled[p] - all) * (n * scaled[p] - all)]
    IN TrueDivide(SumOver(sq, n), P * P * n * n * (n - 1))


(***************************************************************************)
(* What the sidebar widgets can return.                                    *)
(***************************************************************************)
YearChoices == {{}, {2011}, {2011, 2012}}
SeasonChoices == {{}, {"Winter"}, Range(season_map)}
WeatherChoices == {{}, {"Heavy Rain/Snow"}, Range(weather_map)}
WeekdayChoices == {{}, {"Monday"}, Range(weekday_map)}
WorkingChoices == {"All", "Working Day", "Holiday/Weekend"}
HourStops == {5, 8, 17}
\* st.slider returns its pair in ascending order
HourRanges == {hh \in HourStops \X HourStops : hh[1] <= hh[2]}
Dates == 1..MaxDate
\* st.date_input returns a tuple of the dates picked so far: none, the start
\* alone, or start and end
DateRanges == {<< >>} \cup {<< a >> : a \in Dates} \cup (Dates \X Dates)

NoInput ==
    [years_raw |-> {}, seasons_raw |-> {}, weather_raw |-> {}, weekdays_raw |-> {},
     working_filter |-> "All", hour_range |-> << 0, 23 >>, date_range |-> << >>]

MainInputs ==
    {[NoInput EXCEPT !.years_raw = y, !.seasons_raw = s, !.weather_raw = w,
                     !.working_filter = k, !.hour_range = h, !.date_range = d] :
        y \in YearChoices, s \in SeasonChoices, w \in WeatherChoices,
        k \in WorkingChoices, h \in HourRanges, d \in DateRanges}

TemporalInputs ==
    {[NoInput EXCEPT !.years_raw = y, !.seasons_raw = s, !.weekdays_raw = wd,
                     !.hour_range = h, !.date_range = d] :
        y \in YearChoices, s \in SeasonChoices, wd \in WeekdayChoices,
        h \in HourRanges, d \in DateRanges}

SubPageInputs ==
    {[NoInput EXCEPT !.years_raw = y, !.seasons_raw = s, !.weather_raw = w,
                     !.weekdays_raw = wd, !.hour_range = h, !.date_range = d] :
        y \in YearChoices, s \in SeasonChoices, w \in WeatherChoices,
        wd \in WeekdayChoices, h \in HourRanges, d \in DateRanges}

(***************************************************************************)
(* The outcome of one run of a page script.                                *)
(*   status    "date_warning": st.stop() at the date check;                *)
(*             "no_data": st.stop() at the empty check;                    *)
(*             "exception": an uncaught exception ended the run;           *)
(*             "rendered": the script ran to its end                       *)
(*   tests     the comparisons the run made on coded values: the place,    *)
(*             and the Python types found on either side                   *)
(***************************************************************************)
NoKpi ==
    [total_rentals |-> NA, peak_hour |-> NA, least_hour |-> NA, reg_pct |-> NA,
     cas_pct |-> NA, ratio |-> NA, hour_std |-> NA]

NoSelection == [years |-> {}, seasons |-> {}, weather |-> {}, weekdays |-> {}]

Outcome(st, sel, src, frame, k, t, ins) ==
    [status |-> st, selected |-> sel, df |-> src, filtered_df |-> frame,
     kpi |-> k, tests |-> t, insight |-> ins]

Compared(site, lhs, rhs) == [site |-> site, lhs |-> Kinds(lhs), rhs |-> Kinds(rhs)]

\* isinstance(date_range, (list, tuple)) and len(date_range) == 2
DateRangeCompleteOrdered(date_range) ==
    Len(date_range) = 2 /\ date_range[1] <= date_range[2]

DateRangeComplete(date_range) == Len(date_range) = 2

\* df['dteday'].min(), df['dteday'].max(): the span of the file's dates
FullSpan(rows) ==
    << CHOOSE a \in Unique(rows, "dteday") : \A b \in Unique(rows, "dteday") : a <= b,
       CHOOSE a \in Unique(rows, "dteday") : \A b \in Unique(rows, "dteday") : a >= b >>

\* if not selected: selected = df[col].unique()
OrUnique(selected, rows, col) == IF selected = {} THEN Unique(rows, col) ELSE selected

\* the hour and date comparisons shared by every page's mask
InHourAndDate(r, in) ==
    /\ r.hr >= in.hour_range[1] /\ r.hr <= in.hour_range[2]
    /\ r.dteday >= in.date_range[1] /\ r.dteday <= in.date_range[2]


(***************************************************************************)
(* Urban Wheels.py, the main page.                                         *)
(***************************************************************************)
MainKpis(rows) ==
    LET series == GroupMeanByHour(rows)
    IN [NoKpi EXCEPT
          !.total_rentals = Fin(Sum(rows, "cnt")),
          !.peak_hour = Fin(idxmax(series)),
          !.reg_pct = TrueDivide(100 * Sum(rows, "registered"), Sum(rows, "cnt")),
          !.cas_pct = TrueDivide(100 * Sum(rows, "casual"), Sum(rows, "cnt"))]

\* if "Winter" in selected_seasons and "Heavy Rain/Snow" in selected_weather
\* ... elif "Summer" in selected_seasons ... else
MainInsight(sel) ==
    IF PyStr("Winter") \in sel.seasons /\ PyStr("Heavy Rain/Snow") \in sel.weather
    THEN "winter_warning"
    ELSE IF PyStr("Summer") \in sel.seasons THEN "summer"
    ELSE "generic"

\* the membership tests the insight block evaluates (`and` short-circuits)
MainInsightTests(sel) ==
    {Compared("insight: Winter in selected_seasons", {PyStr("Winter")}, sel.seasons)}
    \cup (IF PyStr("Winter") \in sel.seasons
          THEN {Compared("insight: Heavy Rain/Snow in selected_weather",
                         {PyStr("Heavy Rain/Snow")}, sel.weather)}
          ELSE {})
    \cup (IF PyStr("Winter") \in sel.seasons /\ PyStr("Heavy Rain/Snow") \in sel.weather
          THEN {}
          ELSE {Compared("insight: Summer in selected_seasons",
                         {PyStr("Summer")}, sel.seasons)})

MainPage(loaded, in) ==
    LET raw_sel == [years |-> SelectedCodes(year_map, in.years_raw),
                    seasons |-> SelectedCodes(season_map, in.seasons_raw),
                    weather |-> SelectedCodes(weather_map, in.weather_raw),
                    weekdays |-> {}]
        sel == [raw_sel EXCEPT
                  !.years = OrUnique(@, loaded, "yr"),
                  !.seasons = OrUnique(@, loaded, "season"),
                  !.weather = OrUnique(@, loaded, "weathersit")]
        mask == {r.idx : r \in {x \in RowsOf(loaded) :
                    /\ x.yr \in sel.years
                    /\ x.season \in sel.seasons
                    /\ x.weathersit \in sel.weather
                    /\ InHourAndDate(x, in)}}
        filter_tests ==
            {Compared("yr.isin", Unique(loaded, "yr"), sel.years),
             Compared("season.isin", Unique(loaded, "season"), sel.seasons),
             Compared("weathersit.isin", Unique(loaded, "weathersit"), sel.weather)}
        labelled == Relabel(BoolIndex(loaded, mask))
        src == SourceAfter(loaded, labelled)
        flag == IF in.working_filter = "Working Day" THEN PyInt(1) ELSE PyInt(0)
        worked ==
            IF in.working_filter = "All" THEN labelled
            ELSE BoolIndex(labelled.rows,
                           {r.idx : r \in {x \in RowsOf(labelled.rows) :
                                              x.workingday = flag}})
        working_tests ==
            IF in.working_filter = "All" THEN {}
            ELSE {Compared("workingday ==", Unique(labelled.rows, "workingday"),
                           {flag})}
    IN IF ~DateRangeComplete(in.date_range)
       THEN Outcome("date_warning", raw_sel, loaded, << >>, NoKpi, {}, "none")
       ELSE IF Len(labelled.rows) = 0
       THEN Outcome("no_data", sel, src, labelled.rows, NoKpi, filter_tests, "none")
       ELSE IF Len(worked.rows) = 0
       \* Series.idxmax() of an empty series raises ValueError, after the
       \* total has been shown
       THEN Outcome("exception", sel, src, worked.rows,
                    [NoKpi EXCEPT !.total_rentals = Fin(Sum(worked.rows, "cnt"))],
                    filter_tests \cup working_tests, "none")
       ELSE Outcome("rendered", sel, src, worked.rows, MainKpis(worked.rows),
                    filter_tests \cup working_tests \cup MainInsightTests(sel),
                    MainInsight(sel))

(***************************************************************************)
(* pages/1_Temporal_Analysis.py, 2_Weather_Impact.py, 3_User_Behavior.py:  *)
(* the three pages filter alike and differ in their metrics.               *)
(***************************************************************************)
\* "Apply filters" and "Add readable labels" of the three pages, from the
\* selections as the sidebar block left them
SubPageFilter(loaded, in, raw_sel) ==
    LET sel == [raw_sel EXCEPT
                  !.years = OrUnique(@, loaded, "yr"),
                  !.seasons = OrUnique(@, loaded, "season"),
                  !.weekdays = OrUnique(@, loaded, "weathersit")]
        mask == {r.idx : r \in {x \in RowsOf(loaded) :
                    /\ x.yr \in sel.years
                    /\ x.season \in sel.seasons
                    /\ x.weekday \in sel.weekdays
                    /\ InHourAndDate(x, in)}}
        labelled == Relabel(BoolIndex(loaded, mask))
    IN [selected |-> sel,
        frame |-> labelled,
        df |-> SourceAfter(loaded, labelled),
        tests |-> {Compared("yr.isin", Unique(loaded, "yr"), sel.years),
                   Compared("season.isin", Unique(loaded, "season"), sel.seasons),
                   Compared("weekday.isin", Unique(loaded, "weekday"), sel.weekdays)}]

\* the part of a page after its sidebar block, given the page's metrics
SubPage(loaded, in, raw_sel, kpis) ==
    LET f == SubPageFilter(loaded, in, raw_sel)
    IN IF ~DateRangeComplete(in.date_range)
       THEN Outcome("date_warning", raw_sel, loaded, << >>, NoKpi, {}, "none")
       ELSE IF Len(f.frame.rows) = 0
       THEN Outcome("no_data", f.selected, f.df, f.frame.rows, NoKpi, f.tests, "none")
       ELSE Outcome("rendered", f.selected, f.df, f.frame.rows, kpis, f.tests, "none")

TemporalKpis(rows) ==
    LET series == GroupMeanByHour(rows)
    IN [NoKpi EXCEPT
          !.peak_hour = Fin(idxmax(series)),
          !.least_hour = Fin(idxmin(series)),
          !.hour_std = SampleVariance(series)]

TemporalPage(loaded, in) ==
    LET raw_sel == [years |-> SelectedCodes(year_map, in.years_raw),
                    seasons |-> SelectedCodes(season_map, in.seasons_raw),
                    weather |-> {},
                    weekdays |-> SelectedCodes(weekday_map, in.weekdays_raw)]
        rows == SubPageFilter(loaded, in, raw_sel).frame.rows
        out == SubPage(loaded, in, raw_sel, TemporalKpis(rows))
        \* the weekday tab splits the labelled table on workingday
        tab_tests ==
            {Compared("tab 2: workingday == 1", Unique(rows, "workingday"), {PyInt(1)}),
             Compared("tab 2: workingday == 0", Unique(rows, "workingday"), {PyInt(0)})}
    IN IF out.status = "rendered" THEN [out EXCEPT !.tests = @ \cup tab_tests]
       ELSE out

\* the weather page's metrics are over the physical measurements, which the
\* table here does not carry
WeatherPage(loaded, in) ==
    LET raw_sel == [years |-> SelectedCodes(year_map, in.years_raw),
                    seasons |-> SelectedCodes(season_map, in.seasons_raw),
                    weather |-> SelectedCodes(weather_map, in.weather_raw),
                    weekdays |-> SelectedCodes(weekday_map, in.weekdays_raw)]
    IN SubPage(loaded, in, raw_sel, NoKpi)

UserKpis(rows) ==
    LET casual == Sum(rows, "casual")
        registered == Sum(rows, "registered")
    IN [NoKpi EXCEPT
          !.cas_pct = TrueDivide(100 * casual, casual + registered),
          !.reg_pct = TrueDivide(100 * registered, casual + registered),
          !.ratio = TrueDivide(registered, casual)]

UserPage(loaded, in) ==
    LET raw_sel == [years |-> SelectedCodes(year_map, in.years_raw),
                    seasons |-> SelectedCodes(season_map, in.seasons_raw),
                    weather |-> SelectedCodes(weather_map, in.weather_raw),
                    weekdays |-> SelectedCodes(weekday_map, in.weekdays_raw)]
        rows == SubPageFilter(loaded, in, raw_sel).frame.rows
    IN SubPage(loaded, in, raw_sel, UserKpis(rows))

(***************************************************************************)
(* The state: the csv file, the st.cache_data entry of load_data, and the  *)
(* last run (page "none": no run yet, or the run's script state has been   *)
(* discarded for the next one).                                            *)
(***************************************************************************)
VARIABLES csv, cache, page, inp, status, selected, df, filtered_df, kpi, tests,
          insight

vars == << csv, cache, page, inp, status, selected, df, filtered_df, kpi, tests,
           insight >>

NoRun ==
    /\ page' = "none"
    /\ inp' = NoInput
    /\ status' = "none"
    /\ selected' = NoSelection
    /\ df' = << >>
    /\ filtered_df' = << >>
    /\ kpi' = NoKpi
    /\ tests' = {}
    /\ insight' = "none"

Init ==
    /\ csv \in CsvFiles
    /\ cache = << >>
    /\ page = "none"
    /\ inp = NoInput
    /\ status = "none"
    /\ selected = NoSelection
    /\ df = << >>
    /\ filtered_df = << >>
    /\ kpi = NoKpi
    /\ tests = {}
    /\ insight = "none"

\* @st.cache_data load_data(): the file is read on the first call; later
\* calls return a copy of the stored value
load_data == IF cache = << >> THEN csv ELSE cache

Ran(p, in, out) ==
    /\ page' = p
    /\ inp' = in
    /\ cache' = load_data
    /\ status' = out.status
    /\ selected' = out.selected
    /\ df' = out.df
    /\ filtered_df' = out.filtered_df
    /\ kpi' = out.kpi
    /\ tests' = out.tests
    /\ insight' = out.insight
    /\ UNCHANGED csv

RunMain ==
    /\ page = "none"
    /\ \E in \in MainInputs : Ran("main", in, MainPage(load_data, in))

RunTemporal ==
    /\ page = "none"
    /\ \E in \in TemporalInputs : Ran("temporal", in, TemporalPage(load_data, in))

RunWeather ==
    /\ page = "none"
    /\ \E in \in SubPageInputs : Ran("weather", in, WeatherPage(load_data, in))

RunUser ==
    /\ page = "none"
    /\ \E in \in SubPageInputs : Ran("user", in, UserPage(load_data, in))

\* the next interaction: Streamlit drops the script's variables and runs the
\* page from the top again; the cache entry stays
Rerun ==
    /\ page # "none"
    /\ NoRun
    /\ UNCHANGED << csv, cache >>

Next == RunMain \/ RunTemporal \/ RunWeather \/ RunUser \/ Rerun

Spec == Init /\ [][Next]_vars


(***************************************************************************)
(* Properties.                                                             *)
(***************************************************************************)
PageRun(p, loaded, in) ==
    CASE p = "main" -> MainPage(loaded, in)
      [] p = "temporal" -> TemporalPage(loaded, in)
      [] p = "weather" -> WeatherPage(loaded, in)
      [] p = "user" -> UserPage(loaded, in)

\* the multiselects a page's sidebar shows
Offers(p) ==
    CASE p = "main" -> {"years", "seasons", "weather"}
      [] p = "temporal" -> {"years", "seasons", "weekdays"}
      [] p \in {"weather", "user"} -> {"years", "seasons", "weather", "weekdays"}
      [] OTHER -> {}

IdxOf(rows) == {r.idx : r \in RowsOf(rows)}

\* the widget values with one dimension set to the labels of every code the
\* file holds on it
EveryCodeSelected(in, dim) ==
    CASE dim = "years" ->
            [in EXCEPT !.years_raw = {year_map[v.i] : v \in Unique(csv, "yr")}]
      [] dim = "seasons" ->
            [in EXCEPT !.seasons_raw = {season_map[v.i] : v \in Unique(csv, "season")}]
      [] dim = "weather" ->
            [in EXCEPT !.weather_raw =
                            {weather_map[v.i] : v \in Unique(csv, "weathersit")}]
      [] dim = "weekdays" ->
            [in EXCEPT !.weekdays_raw =
                            {weekday_map[v.i] : v \in Unique(csv, "weekday")}]

RawOf(in, dim) ==
    CASE dim = "years" -> in.years_raw
      [] dim = "seasons" -> in.seasons_raw
      [] dim = "weather" -> in.weather_raw
      [] dim = "weekdays" -> in.weekdays_raw

\* C1: on every page, a run with an empty raw selection on one offered
\* dimension retains exactly the rows that the run with every code of the
\* file selected on that dimension retains, the other widgets being equal.
C1_EmptySelectionUnrestricted ==
    page # "none" =>
        \A dim \in Offers(page) :
            RawOf(inp, dim) = {} =>
                IdxOf(filtered_df) =
                    IdxOf(PageRun(page, csv, EveryCodeSelected(inp, dim)).filtered_df)

\* the selection on a dimension, an empty one standing for every code
ResolvedOr(sel, col) == OrUnique(sel, csv, col)

\* C2: on every page, the filtered rows are exactly the rows of the file that
\* satisfy every filter the page collects: year, season, weather and weekday
\* code in the selection, hour and date in their inclusive ranges, and the
\* working-day choice.
C2_FilteredIsConjunctionOfCollected ==
    (page # "none" /\ status # "date_warning") =>
        IdxOf(filtered_df) =
            {r.idx : r \in {x \in RowsOf(csv) :
                /\ x.yr \in ResolvedOr(selected.years, "yr")
                /\ x.season \in ResolvedOr(selected.seasons, "season")
                /\ "weather" \in Offers(page) =>
                        x.weathersit \in ResolvedOr(selected.weather, "weathersit")
                /\ "weekdays" \in Offers(page) =>
                        x.weekday \in ResolvedOr(selected.weekdays, "weekday")
                /\ x.hr >= inp.hour_range[1] /\ x.hr <= inp.hour_range[2]
                /\ x.dteday >= inp.date_range[1] /\ x.dteday <= inp.date_range[2]
                /\ inp.working_filter = "Working Day" => x.workingday = PyInt(1)
                /\ inp.working_filter = "Holiday/Weekend" => x.workingday = PyInt(0)}}

\* C3: in every run of every page, the metrics are computed only over a
\* non-empty final filtered set: a run whose final set is empty ends in the
\* no-data state and never reaches the aggregation.
C3_NoAggregateOverEmptySet ==
    (page # "none" /\ status # "date_warning" /\ Len(filtered_df) = 0) =>
        (status = "no_data" /\ kpi = NoKpi)

CodedColumns == {"yr", "season", "weathersit", "weekday", "workingday"}

\* C4: after any run of any page, the cached table and the table the run
\* loaded are the file's rows, with the coded columns still holding integer
\* codes; the labels are written to the run's filtered copy only.
C4_SourceUnchanged ==
    /\ cache = << >> \/ cache = csv
    /\ page # "none" =>
        /\ df = csv
        /\ \A r \in RowsOf(df) : \A c \in CodedColumns : r[c].t = "int"

\* a run has relabelled a non-empty filtered copy
C4_Witness ==
    /\ page # "none"
    /\ Len(filtered_df) > 0
    /\ \A r \in RowsOf(filtered_df) :
          r.season.t = "str" /\ r.weathersit.t = "str" /\ r.weekday.t = "str"
    /\ cache = csv


\* the hours of a table, and the total and the number of rows at an hour
HoursIn(rows) == {r.hr : r \in RowsOf(rows)}
TotalAt(rows, h) == LET At(r) == r.hr = h IN Sum(SelectSeq(rows, At), "cnt")
CountAt(rows, h) == LET At(r) == r.hr = h IN Len(SelectSeq(rows, At))
\* mean at g <= mean at h
MeanLeq(rows, g, h) ==
    TotalAt(rows, g) * CountAt(rows, h) <= TotalAt(rows, h) * CountAt(rows, g)
MaxMeanHours(rows) ==
    {h \in HoursIn(rows) : \A g \in HoursIn(rows) : MeanLeq(rows, g, h)}
MinMeanHours(rows) ==
    {h \in HoursIn(rows) : \A g \in HoursIn(rows) : MeanLeq(rows, h, g)}

\* C5: for every non-empty filtered set, the peak hour shown is the lowest
\* hour among those of maximal mean total count, and the least active hour
\* shown is an hour of minimal mean total count.
C5_PeakHourLowestOfMaxima ==
    /\ (page \in {"main", "temporal"} /\ status = "rendered") =>
          /\ kpi.peak_hour.k = "fin"
          /\ kpi.peak_hour.n \in MaxMeanHours(filtered_df)
          /\ \A h \in MaxMeanHours(filtered_df) : kpi.peak_hour.n <= h
    /\ (page = "temporal" /\ status = "rendered") =>
          /\ kpi.least_hour.k = "fin"
          /\ kpi.least_hour.n \in MinMeanHours(filtered_df)

\* hours 8 and 17 tie at the maximal mean above a lower hour, an hour holding
\* more than one row, and 8 is shown
C5_Witness ==
    /\ page \in {"main", "temporal"}
    /\ status = "rendered"
    /\ MaxMeanHours(filtered_df) = {8, 17}
    /\ HoursIn(filtered_df) = {5, 8, 17}
    /\ kpi.peak_hour = Fin(8)

\* C6: on the User Behavior page, a non-empty filtered set whose casual sum
\* is 0 gets no registered/casual ratio shown as a value.
C6_RatioOmittedOnZeroCasual ==
    (page = "user" /\ status = "rendered" /\ Sum(filtered_df, "casual") = 0) =>
        kpi.ratio.k = "na"

\* C7: on the main page and the User Behavior page, a non-empty filtered set
\* whose total sum is 0 gets neither percentage computed.
C7_PercentagesOmittedOnZeroTotal ==
    (page \in {"main", "user"} /\ status = "rendered"
        /\ Sum(filtered_df, "cnt") = 0) =>
        (kpi.reg_pct.k = "na" /\ kpi.cas_pct.k = "na")

\* C8: on the Temporal Analysis page, a non-empty filtered set with fewer
\* than 2 distinct hours gets no hourly demand variability shown as a value,
\* and the other metrics are shown.
C8_VariabilityOmittedBelowTwoHours ==
    (page = "temporal" /\ status = "rendered"
        /\ Cardinality(HoursIn(filtered_df)) < 2) =>
        (kpi.hour_std.k = "na" /\ kpi.peak_hour.k = "fin" /\ kpi.least_hour.k = "fin")

\* C9: on every page, a run whose date range has its start after its end
\* does not filter and does not end as a no-data (or any other ordinary)
\* result.
C9_ReversedDateRangeRejected ==
    (page # "none" /\ Len(inp.date_range) = 2
        /\ inp.date_range[1] > inp.date_range[2]) =>
        status \notin {"no_data", "rendered", "exception"}

\* C10: in every run of every page, every comparison of a filter or of a
\* selection test has integer codes on both sides.
C10_ComparisonsOnCodesOnly ==
    \A c \in tests : c.lhs \subseteq {"int"} /\ c.rhs \subseteq {"int"}


\* two shown floats are numbers and add up to 100 / are the same number
AddUpTo100(a, b) ==
    a.k = "fin" /\ b.k = "fin" /\ a.n * b.d + b.n * a.d = 100 * a.d * b.d
SameNumber(a, b) == a.k = "fin" /\ b.k = "fin" /\ a.n * b.d = b.n * a.d

\* every retained row and the sums split into casual and registered
TotalsSplit(rows) ==
    /\ \A r \in RowsOf(rows) : r.cnt = r.casual + r.registered
    /\ Sum(rows, "cnt") = Sum(rows, "casual") + Sum(rows, "registered")

\* the percentages shown add up to 100, and the main page's and the User
\* Behavior page's computations give the same numbers on the run's rows
PercentagesConsistent ==
    /\ AddUpTo100(kpi.reg_pct, kpi.cas_pct)
    /\ SameNumber(MainKpis(filtered_df).reg_pct, UserKpis(filtered_df).reg_pct)
    /\ SameNumber(MainKpis(filtered_df).cas_pct, UserKpis(filtered_df).cas_pct)

\* C11: every row of a filtered set has total = casual + registered and the
\* sums split alike; so on the main page and on the User Behavior page the two
\* percentages add up to 100 and both pages' computations give the same
\* percentages for the same rows.
C11_TotalsSplitAndPercentagesAgree ==
    /\ page # "none" => TotalsSplit(filtered_df)
    /\ (page \in {"main", "user"} /\ status = "rendered") => PercentagesConsistent

\* what does hold of C11: the split in every run, and the percentages
\* wherever the total sum is not 0
C11_HoldsOffZeroTotal ==
    /\ page # "none" => TotalsSplit(filtered_df)
    /\ (page \in {"main", "user"} /\ status = "rendered"
            /\ Sum(filtered_df, "cnt") # 0) => PercentagesConsistent


\* the run of the same page on the same widgets with the date range set to
\* the span of the file
FullSpanRun == PageRun(page, csv, [inp EXCEPT !.date_range = FullSpan(csv)])

LabelSelected(m, label, sel) ==
    \E v \in sel : v.t = "int" /\ v.i \in DOMAIN m /\ m[v.i] = label

\* C13: on the main page, in every run that reaches the insight panel, the
\* heavy-winter-weather warning is shown exactly when Winter is among the
\* selected seasons and Heavy Rain/Snow among the selected weather
\* conditions; otherwise the summer message exactly when Summer is among the
\* selected seasons; otherwise the generic hint.
C13_InsightFollowsSelections ==
    (page = "main" /\ status = "rendered") =>
        insight =
            IF /\ LabelSelected(season_map, "Winter", selected.seasons)
               /\ LabelSelected(weather_map, "Heavy Rain/Snow", selected.weather)
            THEN "winter_warning"
            ELSE IF LabelSelected(season_map, "Summer", selected.seasons)
            THEN "summer"
            ELSE "generic"

\* what the insight block does: whatever is selected, the generic hint
C13_InsightAlwaysGeneric ==
    (page = "main" /\ status = "rendered") => insight = "generic"

====
